---- MODULE Spec2Model ----
(***************************************************************************)
(* The approval queue of Ailys (core/approval_queue.py): ApprovalQueue,    *)
(* its requests, and the threads that call it.  Submitter threads call     *)
(* request_approval; approver threads (the GUI) call approve_request,      *)
(* deny_request, approve_batch and approve_all_pending; set_mode may be    *)
(* called at any time.  A step of the model is one access of a thread to   *)
(* the shared state, together with the thread's own steps around it that   *)
(* no other thread can tell apart (taking a lock right before, leaving it  *)
(* right after).                                                           *)
(***************************************************************************)
EXTENDS Naturals, Integers, Sequences, FiniteSets

\* Number of request_approval calls in one run: with two submitters and one
\* approver, with one submitter and two approvers, and with one operation
\* at a time.
MaxRequests == 2
MaxRaceRequests == 1
MaxSeqRequests == 3
\* Largest count handed to approve_batch.
MaxBatch == 2

\* The threads.  Which idle thread of a kind takes up the next operation makes
\* no difference to the queue: it is always the first idle one.
Submitters == {1, 2}
Approvers == {11, 12}
Threads == Submitters \cup Approvers

Modes == {"manual", "auto", "dryrun"}

\* Python's None for result, error and return values.
None == <<>>
\* No thread: the holder of a free lock.
NoThread == 0

\* What the callable handed in by the f-th request_approval call returns.
Ret(f) == <<"ret", f>>
\* The exception the callable raises when it fails.
Exc(f) == <<"exc", f>>
\* deny_request's boolean results.
PyTrue == <<"True">>
PyFalse == <<"False">>
\* No operation returned in the step just taken.
NoReturn == <<>>
\* Operation op of thread t returned v (or let exception v out) in the step
\* just taken; exc tells whether the thread's own call of the callable raised.
Return(t, op, v, e) == [by |-> t, op |-> op, val |-> v, raised |-> FALSE, exc |-> e]
Raise(t, op, v) == [by |-> t, op |-> op, val |-> v, raised |-> TRUE, exc |-> TRUE]

\* One execution of a callable returns or raises.
Outcomes == {"returns", "raises"}

VARIABLES
  mode,                \* ApprovalQueue._mode
  requests,            \* ApprovalQueue._requests: sequence of ApprovalRequest
  queue,               \* ApprovalQueue._queue: FIFO of references into requests
  next_id,             \* ApprovalQueue._next_id
  auto_approve_count,  \* ApprovalQueue._auto_approve_count
  lock,                \* holder of ApprovalQueue._lock
  nfn,                 \* number of request_approval calls so far
  pc,                  \* each thread's position
  cur,                 \* each thread's req (reference into requests)
  exc,                 \* whether the thread's own call of the callable raised
  timeout,             \* submitter: whether its timeout argument is a number
  count,               \* approver: local `count` of approve_batch
  n0,                  \* approver: the count argument approve_batch was called with
  p0,                  \* approver: requests pending when approve_batch was called
  returned,            \* the return of an operation, in the step that makes it
  module,              \* sys.modules["core.approval_queue"]: its globals
  instances,           \* number of ApprovalQueue objects constructed so far
  executions,          \* number of executions of the module body so far
  refs,                \* each importer's approval_queue (0 before its import)
  npc,                 \* position of the request_approval a thread's callable made
  ncur,                \* that nested call's req (reference into requests)
  tpc,                 \* each worker's position in _with_temp_approval_mode
  prev_mode,           \* each worker's local prev_mode ("None" for None)
  ask,                 \* each submitter's call of ask(): its stage and locals
  do_calls,            \* the callables that are _do_call closures of ask()
  provider,            \* the provider call made in the step just taken
  ask_returned         \* the return of ask(), in the step that makes it

vars == <<mode, requests, queue, next_id, auto_approve_count, lock, nfn,
          pc, cur, exc, timeout, count, n0, p0, returned,
          module, instances, executions, refs, npc, ncur, tpc, prev_mode,
          ask, do_calls, provider, ask_returned>>

qvars == <<mode, requests, queue, next_id, auto_approve_count, lock>>
avars == <<count, n0, p0>>
mvars == <<module, instances, executions, refs>>
nvars == <<npc, ncur>>
tvars == <<tpc, prev_mode>>
cvars == <<ask, do_calls, provider, ask_returned>>

\* No provider call was made in the step just taken.
NoCall == <<>>
\* A submitter that is not inside ask().
NoAsk == [stage |-> "none", api_key |-> FALSE]

\* A step that is no step of ask() and runs no callable.
NoAskStep ==
  /\ provider' = NoCall
  /\ ask_returned' = NoReturn
  /\ UNCHANGED <<ask, do_calls>>

\* The threads that run a task's fn inside _with_temp_approval_mode.
Workers == {21, 22}

----------------------------------------------------------------------------
\* The module-global wiring at the end of core/approval_queue.py.  A queue
\* object is named by the order of its construction (0: no object); a module
\* namespace holds the two globals the wiring binds.
MaxExecutions == 3

\* The code that imports core.approval_queue runs on the model's threads.
Importers == {1, 2, 11}

\* The namespace of the module before its body has run.
NoModule == [approval_queue |-> 0, GLOBAL_APPROVAL_QUEUE |-> 0]

ModuleBody_AlwaysNew(m, n) ==
  [module |-> [approval_queue |-> n + 1, GLOBAL_APPROVAL_QUEUE |-> n + 1],
   instances |-> n + 1]

\* The body run in namespace m when n queues have been constructed: it reuses
\* _GLOBAL_APPROVAL_QUEUE when the namespace has it, and constructs a queue
\* otherwise.
ModuleBody(m, n) ==
  IF m.GLOBAL_APPROVAL_QUEUE # 0
  THEN [module |-> [m EXCEPT !.approval_queue = m.GLOBAL_APPROVAL_QUEUE],
        instances |-> n]
  ELSE [module |-> [approval_queue |-> n + 1, GLOBAL_APPROVAL_QUEUE |-> n + 1],
        instances |-> n + 1]

\* `import core.approval_queue` / `from core.approval_queue import ...` by
\* importer k: the module is in sys.modules, its body is not run again, and
\* k binds the module's approval_queue.
Import(k) ==
  /\ \A u \in Threads : pc[u] \in {"idle", "w_wait"}
  /\ refs' = [refs EXCEPT ![k] = module.approval_queue]
  /\ returned' = NoReturn
  /\ UNCHANGED <<module, instances, executions>>
  /\ UNCHANGED <<qvars, nfn, pc, cur, exc, timeout, avars>>
  /\ UNCHANGED <<nvars, tvars>>
  /\ NoAskStep

\* The body of the module executed again in the module object of sys.modules.
ReloadModule ==
  /\ executions < MaxExecutions
  /\ \A u \in Threads : pc[u] \in {"idle", "w_wait"}
  /\ module' = ModuleBody(module, instances).module
  /\ instances' = ModuleBody(module, instances).instances
  /\ executions' = executions + 1
  /\ returned' = NoReturn
  /\ UNCHANGED refs
  /\ UNCHANGED <<qvars, nfn, pc, cur, exc, timeout, avars>>
  /\ UNCHANGED <<nvars, tvars>>
  /\ NoAskStep

----------------------------------------------------------------------------
\* The dataclass ApprovalRequest, as built by _enqueue.
\* condition is the thread inside `with req.condition`; calls counts the
\* invocations of call_fn.
ApprovalRequest(id, f) ==
  [id |-> id, call_fn |-> f, approved |-> "None", result |-> None,
   error |-> None, condition |-> NoThread, calls |-> 0]

\* ApprovalQueue.__init__ (mode from _env_mode, "manual" by default).
Init ==
  /\ mode = "manual"
  /\ requests = <<>>
  /\ queue = <<>>
  /\ next_id = 1
  /\ auto_approve_count = 0
  /\ lock = NoThread
  /\ nfn = 0
  /\ pc = [t \in Threads |-> "idle"]
  /\ cur = [t \in Threads |-> 0]
  /\ exc = [t \in Threads |-> FALSE]
  /\ timeout = [t \in Submitters |-> FALSE]
  /\ count = [t \in Approvers |-> 0]
  /\ n0 = [t \in Approvers |-> 0]
  /\ p0 = [t \in Approvers |-> 0]
  /\ returned = NoReturn
  /\ module = ModuleBody(NoModule, 0).module
  /\ instances = ModuleBody(NoModule, 0).instances
  /\ executions = 1
  /\ refs = [k \in Importers |-> 0]
  /\ npc = [t \in Threads |-> "none"]
  /\ ncur = [t \in Threads |-> 0]
  /\ tpc = [w \in Workers |-> "out"]
  /\ prev_mode = [w \in Workers |-> "None"]
  /\ ask = [t \in Submitters |-> NoAsk]
  /\ do_calls = {}
  /\ provider = NoCall
  /\ ask_returned = NoReturn

\* get_pending_requests: the references of the undecided requests.
get_pending_requests ==
  {j \in 1..Len(requests) : requests[j].approved = "None"}

\* _find_request: the first request with this id, 0 when there is none.
_find_request(id) ==
  LET hits == {j \in 1..Len(requests) : requests[j].id = id}
  IN IF hits = {} THEN 0 ELSE CHOOSE j \in hits : \A k \in hits : j <= k

\* A test that only turns away approved requests: a mutant of IsUndecided.
IsUndecided_NotApproved(i) == i # 0 /\ requests[i].approved # "True"

\* A test that only turns away denied requests: a mutant of IsUndecided.
IsUndecided_NotDenied(i) == i # 0 /\ requests[i].approved # "False"

\* The test `req and req.approved is None` of approve_request and
\* deny_request on what _find_request gave.
IsUndecided(i) == i # 0 /\ requests[i].approved = "None"

\* A grant that takes the count as it is given: a mutant of Max0.
Max0_AsGiven(n) == n

\* max(0, int(count)) of approve_batch.
Max0(n) == IF n > 0 THEN n ELSE 0

\* A wait that takes timeout=None for a timeout of zero: a mutant of
\* KeepWaiting.
KeepWaiting_NoneIsZero(approved, timed, expired) ==
  timed /\ approved = "None" /\ ~expired

\* A wait that ends as soon as the queue has left manual mode: a mutant of
\* KeepWaiting.
KeepWaiting_WhileManual(approved, timed, expired) ==
  /\ mode = "manual"
  /\ IF timed THEN approved = "None" /\ ~expired ELSE approved = "None"

\* A wait that goes on until the request is approved: a mutant of KeepWaiting.
KeepWaiting_UntilApproved(approved, timed, expired) ==
  IF timed THEN approved # "True" /\ ~expired ELSE approved # "True"
\* The loop test of request_approval's wait: keep waiting.
KeepWaiting(approved, timed, expired) ==
  IF timed THEN approved = "None" /\ ~expired ELSE approved = "None"

\* A return that hands out req.result whatever the decision: a mutant of
\* ReturnValue.
ReturnValue_ResultAnyway(r) == r.result

\* request_approval's final `if req.approved: return req.result; return None`.
ReturnValue(r) == IF r.approved = "True" THEN r.result ELSE None

\* The decision _execute_request records after the call.
ExecApproved(raised) == IF raised THEN "False" ELSE "True"

\* An except clause that lets the callable's exception through: a mutant of
\* AutoCatches.
AutoCatches_Not == FALSE

\* Whether the auto branch's except clause (`except BaseException`) catches
\* what the callable raised.
AutoCatches == TRUE

\* The test of the grant path: `self._auto_approve_count > 0`.
HasGrant(n) == n > 0

\* Thread t is the one to take up the next operation of its kind.
Takes(t, kind) == pc[t] = "idle" /\ \A u \in kind : u < t => pc[u] # "idle"

\* A thread back from its operation: its locals are gone.
SubmitterDone(t) ==
  /\ pc' = [pc EXCEPT ![t] = "idle"]
  /\ cur' = [cur EXCEPT ![t] = 0]
  /\ exc' = [exc EXCEPT ![t] = FALSE]
  /\ timeout' = [timeout EXCEPT ![t] = FALSE]

ApproverDone(a) ==
  /\ pc' = [pc EXCEPT ![a] = "idle"]
  /\ cur' = [cur EXCEPT ![a] = 0]
  /\ exc' = [exc EXCEPT ![a] = FALSE]
  /\ count' = [count EXCEPT ![a] = 0]
  /\ n0' = [n0 EXCEPT ![a] = 0]
  /\ p0' = [p0 EXCEPT ![a] = 0]

\* set_mode
SetMode(m) ==
  /\ m # mode
  /\ mode' = m
  /\ returned' = NoReturn
  /\ UNCHANGED <<requests, queue, next_id, auto_approve_count, lock, nfn, pc, cur, exc, timeout, avars>>
  /\ UNCHANGED <<mvars, nvars, tvars>>
  /\ NoAskStep

----------------------------------------------------------------------------
\* ask() of core/artificial_cognition.py: the caller of request_approval
\* whose callable is the closure _do_call.

\* What one call of the provider (client.chat.completions.create) does: it
\* answers, fails with an error one of the known fixes matches, or fails
\* with another error.
ProviderOutcomes == {"ok", "fixable", "other"}

\* MAX_ATTEMPTS of the attempt loop.
MAX_ATTEMPTS == 3

\* The except handler of the attempt loop formats
\* f"exchange_attempt{attempt_idx}"; attempt_idx is a parameter of
\* _single_call and no name of _do_call, so the handler raises NameError.
HandlerRaisesNameError == TRUE

\* _do_call at attempt k when the provider call had outcome po: what the
\* callable does next.  "returns": it returns the CognitionResult;
\* "raises": it lets an exception out; "retry": it submits a new
\* request_approval for attempt k + 1.
DoCall(po, k) ==
  IF po = "ok" THEN "returns"
  ELSE IF HandlerRaisesNameError THEN "raises"
  ELSE IF k >= MAX_ATTEMPTS THEN "raises"
  ELSE IF po = "fixable" THEN "retry"
  ELSE "raises"

\* RuntimeError("Approval declined or failed; no result returned.")
RuntimeError == <<"RuntimeError">>

\* An ask() that hands on whatever the queue returned: a mutant of
\* AskReturn.
AskReturn_HandsOn(t, v) ==
  [by |-> t, op |-> "ask", val |-> v, raised |-> FALSE, exc |-> FALSE]

\* The end of ask() on the value v request_approval returned:
\* `if not result: raise RuntimeError(...)`, else `return result`.
AskReturn(t, v) ==
  IF v = None
    THEN [by |-> t, op |-> "ask", val |-> RuntimeError, raised |-> TRUE, exc |-> FALSE]
    ELSE [by |-> t, op |-> "ask", val |-> v, raised |-> FALSE, exc |-> FALSE]

\* ask() up to its approval gate: the arguments are checked, the
\* configuration is read (`api_key = _api_key()` with it), the snapshots are
\* written and _do_call is defined.
AskBegin(t) ==
  /\ Takes(t, Submitters)
  /\ ask[t].stage = "none"
  /\ ask' = [ask EXCEPT ![t] = [stage |-> "gate", api_key |-> TRUE]]
  /\ returned' = NoReturn
  /\ provider' = NoCall
  /\ ask_returned' = NoReturn
  /\ UNCHANGED <<qvars, nfn, pc, cur, exc, timeout, avars, do_calls>>
  /\ UNCHANGED <<mvars, nvars, tvars>>

\* request_approval is handed callable f by thread t: f is a _do_call when t
\* is inside ask().
Submits(t, f) ==
  do_calls' = IF ask[t].stage = "gate" THEN do_calls \cup {f} ELSE do_calls

\* Thread x calls callable f, which returns or raises (o): a _do_call makes
\* its provider call, whose outcome decides o.
Calls(x, f, is_do_call, o) ==
  IF is_do_call
    THEN \E po \in ProviderOutcomes :
           /\ DoCall(po, 1) = o
           /\ provider' = [by |-> x, fn |-> f, attempt |-> 1, outcome |-> po]
    ELSE provider' = NoCall

\* request_approval returns v to its caller on thread t: ask() ends on it.
ReturnsTo(t, v) ==
  IF ask[t].stage = "gate"
    THEN /\ ask_returned' = AskReturn(t, v)
         /\ ask' = [ask EXCEPT ![t] = NoAsk]
    ELSE /\ ask_returned' = NoReturn
         /\ ask' = ask

----------------------------------------------------------------------------
\* request_approval, as run by submitter t.  Its callable is the (nfn+1)-th
\* one handed to the queue; a run makes at most max calls of it.

\* An auto branch that keeps a record of the call as a decided request: a
\* mutant of RequestAuto.
RequestAuto_Recorded(t, o, max) ==
  /\ Takes(t, Submitters)
  /\ nfn < max
  /\ mode = "auto"
  /\ nfn' = nfn + 1
  /\ requests' = Append(requests,
        [id |-> next_id, call_fn |-> nfn + 1,
         approved |-> IF o = "returns" THEN "True" ELSE "False",
         result |-> IF o = "returns" THEN <<"ret", nfn + 1>> ELSE <<>>,
         error |-> IF o = "returns" THEN <<>> ELSE <<"exc", nfn + 1>>,
         condition |-> 0, calls |-> 1])
  /\ next_id' = next_id + 1
  /\ returned' =
       [by |-> t, op |-> "request_approval",
        val |-> IF o = "returns" THEN <<"ret", nfn + 1>> ELSE <<>>,
        raised |-> FALSE, exc |-> (o = "raises")]
  /\ UNCHANGED <<mode, queue, auto_approve_count, lock, pc, cur, exc, timeout, avars>>
  /\ UNCHANGED <<mvars, nvars, tvars>>
  /\ NoAskStep

\* Auto branch: `mode = self._mode`, then
\* `try: return call_fn() except BaseException: return None`.
RequestAuto(t, o, max) ==
  /\ Takes(t, Submitters)
  /\ nfn < max
  /\ mode = "auto"
  /\ nfn' = nfn + 1
  /\ returned' =
       IF o = "returns" THEN Return(t, "request_approval", Ret(nfn + 1), FALSE)
       ELSE IF AutoCatches THEN Return(t, "request_approval", None, TRUE)
       ELSE Raise(t, "request_approval", Exc(nfn + 1))
  /\ UNCHANGED <<qvars, pc, cur, exc, timeout, avars>>
  /\ UNCHANGED <<mvars, nvars, tvars>>
  /\ Submits(t, nfn + 1)
  /\ Calls(t, nfn + 1, ask[t].stage = "gate", o)
  /\ ReturnsTo(t, IF o = "returns" THEN Ret(nfn + 1) ELSE None)

\* An _enqueue that does not advance _next_id: a mutant of EnqueueRequest.
EnqueueRequest_SameId(f) ==
  /\ requests' = Append(requests, ApprovalRequest(next_id, f))
  /\ queue' = Append(queue, Len(requests) + 1)
  /\ next_id' = next_id

\* _enqueue's body under self._lock: the new request gets _next_id, is
\* appended to _requests and put on _queue.
EnqueueRequest(f) ==
  /\ requests' = Append(requests, ApprovalRequest(next_id, f))
  /\ queue' = Append(queue, Len(requests) + 1)
  /\ next_id' = next_id + 1

\* Dryrun branch, first half: `req = self._enqueue(description, call_fn)`.
RequestDryrun(t, max) ==
  /\ Takes(t, Submitters)
  /\ nfn < max
  /\ mode = "dryrun"
  /\ lock = NoThread
  /\ nfn' = nfn + 1
  /\ EnqueueRequest(nfn + 1)
  /\ cur' = [cur EXCEPT ![t] = Len(requests) + 1]
  /\ pc' = [pc EXCEPT ![t] = "dry_mark"]
  /\ returned' = NoReturn
  /\ UNCHANGED <<mode, auto_approve_count, lock, exc, timeout,
                 avars>>
  /\ UNCHANGED <<mvars, nvars, tvars>>
  /\ Submits(t, nfn + 1)
  /\ provider' = NoCall
  /\ ask_returned' = NoReturn
  /\ ask' = ask

\* Dryrun branch, second half: `req.approved = False; return None`.
DryrunMark(t) ==
  /\ pc[t] = "dry_mark"
  /\ requests' = [requests EXCEPT ![cur[t]].approved = "False"]
  /\ returned' = Return(t, "request_approval", None, FALSE)
  /\ SubmitterDone(t)
  /\ UNCHANGED <<mode, queue, next_id, auto_approve_count, lock, nfn, avars>>
  /\ UNCHANGED <<mvars, nvars, tvars>>
  /\ ReturnsTo(t, None)
  /\ provider' = NoCall
  /\ do_calls' = do_calls

\* Manual branch under `with self._lock`: _enqueue, then the test of
\* _auto_approve_count.  With a grant left the thread keeps the lock and goes
\* on to _execute_request; without one it leaves the lock and goes to wait.
RequestManual(t, timed, max) ==
  /\ Takes(t, Submitters)
  /\ nfn < max
  /\ mode = "manual"
  /\ lock = NoThread
  /\ nfn' = nfn + 1
  /\ EnqueueRequest(nfn + 1)
  /\ cur' = [cur EXCEPT ![t] = Len(requests) + 1]
  /\ IF HasGrant(auto_approve_count)
       THEN /\ auto_approve_count' = auto_approve_count - 1
            /\ lock' = t
            /\ pc' = [pc EXCEPT ![t] = "g_call"]
            /\ timeout' = timeout
       ELSE /\ auto_approve_count' = auto_approve_count
            /\ lock' = lock
            /\ pc' = [pc EXCEPT ![t] = "w_wait"]
            /\ timeout' = [timeout EXCEPT ![t] = timed]
  /\ returned' = NoReturn
  /\ UNCHANGED <<mode, exc, avars>>
  /\ UNCHANGED <<mvars, nvars, tvars>>
  /\ Submits(t, nfn + 1)
  /\ provider' = NoCall
  /\ ask_returned' = NoReturn
  /\ ask' = ask

\* One turn of the wait loop under `with req.condition`: the loop test, then
\* either condition.wait(timeout=0.25), which gives the condition lock up
\* until a notify or the end of the slice, or the end of the loop.  A
\* numeric timeout may have run out at any test.
WaitCheck(t, expired) ==
  /\ pc[t] = "w_wait"
  /\ requests[cur[t]].condition = NoThread
  /\ expired => timeout[t]
  /\ ~KeepWaiting(requests[cur[t]].approved, timeout[t], expired)
  /\ pc' = [pc EXCEPT ![t] = "w_read"]
  /\ returned' = NoReturn
  /\ UNCHANGED <<qvars, nfn, cur, exc, timeout, avars>>
  /\ UNCHANGED <<mvars, nvars, tvars>>
  /\ NoAskStep

\* After the loop: `if req.approved: return req.result`, else `return None`.
WaitReturn(t) ==
  /\ pc[t] = "w_read"
  /\ returned' = Return(t, "request_approval", ReturnValue(requests[cur[t]]), FALSE)
  /\ SubmitterDone(t)
  /\ UNCHANGED <<qvars, nfn, avars>>
  /\ UNCHANGED <<mvars, nvars, tvars>>
  /\ ReturnsTo(t, ReturnValue(requests[cur[t]]))
  /\ provider' = NoCall
  /\ do_calls' = do_calls

----------------------------------------------------------------------------
\* _execute_request, as run by thread t on its request cur[t].

\* `request.result = request.call_fn()`, or `request.error = e` when it raises.
ExecuteCall(t, o, holder) ==
  /\ Calls(t, requests[cur[t]].call_fn, requests[cur[t]].call_fn \in do_calls, o)
  /\ exc' = [exc EXCEPT ![t] = (o = "raises")]
  /\ requests' = IF o = "returns"
       THEN [requests EXCEPT ![cur[t]].result = Ret(requests[cur[t]].call_fn),
                             ![cur[t]].calls = @ + 1,
                             ![cur[t]].condition = holder]
       ELSE [requests EXCEPT ![cur[t]].error = Exc(requests[cur[t]].call_fn),
                             ![cur[t]].calls = @ + 1,
                             ![cur[t]].condition = holder]

\* `request.approved = True`, or False after a raise.
ExecuteSet(t, holder) ==
  requests' = [requests EXCEPT ![cur[t]].approved = ExecApproved(exc[t]),
                               ![cur[t]].condition = holder]

\* Grant path of request_approval: `return self._execute_request(req)`, the
\* call, with self._lock held.
GrantCall(t, o) ==
  /\ pc[t] = "g_call"
  /\ ExecuteCall(t, o, requests[cur[t]].condition)
  /\ pc' = [pc EXCEPT ![t] = "g_set"]
  /\ returned' = NoReturn
  /\ UNCHANGED <<mode, queue, next_id, auto_approve_count, lock, nfn, cur,
                 timeout, avars>>
  /\ UNCHANGED <<mvars, nvars, tvars>>
  /\ ask_returned' = NoReturn
  /\ UNCHANGED <<ask, do_calls>>

\* Grant path: the end of _execute_request; request_approval returns
\* request.result and leaves self._lock.
GrantReturn(t) ==
  /\ pc[t] = "g_set"
  /\ ExecuteSet(t, requests[cur[t]].condition)
  /\ returned' = Return(t, "request_approval", requests[cur[t]].result, exc[t])
  /\ lock' = NoThread
  /\ SubmitterDone(t)
  /\ UNCHANGED <<mode, queue, next_id, auto_approve_count, nfn,
                 avars>>
  /\ UNCHANGED <<mvars, nvars, tvars>>
  /\ ReturnsTo(t, requests[cur[t]].result)
  /\ provider' = NoCall
  /\ do_calls' = do_calls

----------------------------------------------------------------------------
\* request_approval called from inside a callable that thread x is executing
\* (a task's fn that goes through core/lit/sources._get, or the retry of
\* ask._do_call): the same code, run on x's stack above the call that
\* executes the callable.  x is inside the callable of the grant path
\* (holding self._lock, an RLock it may take again) or of approve_batch.

\* Whether x is inside a callable it executes.
InCallable(x) == pc[x] \in {"g_call", "ab_call"}

\* The holder of self._lock once x has left a `with self._lock` of the
\* nested call: x still holds it when the outer call took it.
OuterLock(x) == IF pc[x] = "g_call" THEN x ELSE NoThread

\* Manual branch of the nested call under `with self._lock`.
NestedRequestManual(x, timed, max) ==
  /\ InCallable(x)
  /\ npc[x] = "none"
  /\ nfn < max
  /\ mode = "manual"
  /\ lock \in {NoThread, x}
  /\ nfn' = nfn + 1
  /\ EnqueueRequest(nfn + 1)
  /\ ncur' = [ncur EXCEPT ![x] = Len(requests) + 1]
  /\ IF HasGrant(auto_approve_count)
       THEN /\ auto_approve_count' = auto_approve_count - 1
            /\ lock' = x
            /\ npc' = [npc EXCEPT ![x] = "g_call"]
       ELSE /\ auto_approve_count' = auto_approve_count
            /\ lock' = OuterLock(x)
            /\ npc' = [npc EXCEPT ![x] = IF timed THEN "w_wait_timed" ELSE "w_wait"]
  /\ returned' = NoReturn
  /\ UNCHANGED <<mode, pc, cur, exc, timeout, avars>>
  /\ UNCHANGED <<mvars, tvars>>
  /\ NoAskStep

\* The wait loop of the nested call: the loop test fails.
NestedWaitCheck(x, expired) ==
  /\ npc[x] \in {"w_wait", "w_wait_timed"}
  /\ requests[ncur[x]].condition = NoThread
  /\ expired => npc[x] = "w_wait_timed"
  /\ ~KeepWaiting(requests[ncur[x]].approved, npc[x] = "w_wait_timed", expired)
  /\ npc' = [npc EXCEPT ![x] = "w_read"]
  /\ returned' = NoReturn
  /\ UNCHANGED <<qvars, nfn, pc, cur, exc, timeout, avars, ncur>>
  /\ UNCHANGED <<mvars, tvars>>
  /\ NoAskStep

\* The nested call returns to the callable that made it.
NestedWaitReturn(x) ==
  /\ npc[x] = "w_read"
  /\ returned' = Return(x, "request_approval (nested)", ReturnValue(requests[ncur[x]]), FALSE)
  /\ npc' = [npc EXCEPT ![x] = "none"]
  /\ ncur' = [ncur EXCEPT ![x] = 0]
  /\ UNCHANGED <<qvars, nfn, pc, cur, exc, timeout, avars>>
  /\ UNCHANGED <<mvars, tvars>>
  /\ NoAskStep

\* Grant path of the nested call: _execute_request makes the call and
\* records its outcome.
NestedGrantCall(x, o) ==
  /\ npc[x] = "g_call"
  /\ requests' = IF o = "returns"
       THEN [requests EXCEPT ![ncur[x]].result = Ret(requests[ncur[x]].call_fn),
                             ![ncur[x]].calls = @ + 1]
       ELSE [requests EXCEPT ![ncur[x]].error = Exc(requests[ncur[x]].call_fn),
                             ![ncur[x]].calls = @ + 1]
  /\ npc' = [npc EXCEPT ![x] = IF o = "returns" THEN "g_set" ELSE "g_set_raised"]
  /\ returned' = NoReturn
  /\ UNCHANGED <<mode, queue, next_id, auto_approve_count, lock, nfn, pc, cur,
                 exc, timeout, avars, ncur>>
  /\ UNCHANGED <<mvars, tvars>>
  /\ NoAskStep

\* Grant path of the nested call: the decision is recorded, the call returns
\* request.result and leaves its `with self._lock`.
NestedGrantReturn(x) ==
  /\ npc[x] \in {"g_set", "g_set_raised"}
  /\ requests' = [requests EXCEPT
                    ![ncur[x]].approved = ExecApproved(npc[x] = "g_set_raised")]
  /\ returned' = Return(x, "request_approval (nested)", requests[ncur[x]].result,
                        npc[x] = "g_set_raised")
  /\ lock' = OuterLock(x)
  /\ npc' = [npc EXCEPT ![x] = "none"]
  /\ ncur' = [ncur EXCEPT ![x] = 0]
  /\ UNCHANGED <<mode, queue, next_id, auto_approve_count, nfn, pc, cur, exc,
                 timeout, avars>>
  /\ UNCHANGED <<mvars, tvars>>
  /\ NoAskStep

NestedStep(x, max) ==
  \/ \E timed \in BOOLEAN : NestedRequestManual(x, timed, max)
  \/ \E expired \in BOOLEAN : NestedWaitCheck(x, expired)
  \/ NestedWaitReturn(x)
  \/ \E o \in Outcomes : NestedGrantCall(x, o)
  \/ NestedGrantReturn(x)

----------------------------------------------------------------------------
\* The approvers' operations.

\* approve_request(request_id): _find_request and the test `req and
\* req.approved is None`; a failed test returns None.
ApproveRequest(a, id) ==
  /\ Takes(a, Approvers)
  /\ LET i == _find_request(id) IN
       IF IsUndecided(i)
         THEN /\ cur' = [cur EXCEPT ![a] = i]
              /\ pc' = [pc EXCEPT ![a] = "ar_call"]
              /\ returned' = NoReturn
         ELSE /\ returned' = Return(a, "approve_request", None, FALSE)
              /\ pc' = pc
              /\ cur' = cur
  /\ UNCHANGED <<qvars, nfn, exc, timeout, avars>>
  /\ UNCHANGED <<mvars, nvars, tvars>>
  /\ NoAskStep

\* approve_request: `with req.condition:` is entered and _execute_request
\* makes the call.
ApproveCall(a, o) ==
  /\ pc[a] = "ar_call"
  /\ requests[cur[a]].condition = NoThread
  /\ ExecuteCall(a, o, a)
  /\ pc' = [pc EXCEPT ![a] = "ar_set"]
  /\ returned' = NoReturn
  /\ UNCHANGED <<mode, queue, next_id, auto_approve_count, lock, nfn, cur,
                 timeout, avars>>
  /\ UNCHANGED <<mvars, nvars, tvars>>
  /\ ask_returned' = NoReturn
  /\ UNCHANGED <<ask, do_calls>>

\* approve_request: the end of _execute_request, req.condition.notify(), the
\* end of the with block and `return result`.
ApproveReturn(a) ==
  /\ pc[a] = "ar_set"
  /\ ExecuteSet(a, NoThread)
  /\ returned' = Return(a, "approve_request", requests[cur[a]].result, exc[a])
  /\ ApproverDone(a)
  /\ UNCHANGED <<mode, queue, next_id, auto_approve_count, lock, nfn,
                 timeout>>
  /\ UNCHANGED <<mvars, nvars, tvars>>
  /\ NoAskStep

\* The list get_pending_requests builds: the undecided requests, in the order
\* of _requests.
PendingList == SelectSeq(requests, LAMBDA r : r.approved = "None")

\* get_pending_requests(), called by thread a: it reads _requests and returns
\* the list.
GetPendingRequests(a) ==
  /\ Takes(a, Approvers)
  /\ returned' = Return(a, "get_pending_requests", PendingList, FALSE)
  /\ UNCHANGED <<qvars, nfn, pc, cur, exc, timeout, avars>>
  /\ UNCHANGED <<mvars, nvars, tvars>>
  /\ NoAskStep

\* What the approvals pane hands over as overrides: `overrides or None`, so
\* None for an empty mapping, else the mapping.
Overrides == {"None", "model"}

\* Python's TypeError for a call with more positional arguments than the
\* function takes.
TypeError == <<"TypeError">>

\* approve_request(request_id, overrides), as the approvals pane calls it:
\* approve_request takes request_id alone, so the call raises TypeError
\* before the body runs, whatever the id and the overrides.
ApproveRequestOverrides(a, id, ov) ==
  /\ Takes(a, Approvers)
  /\ returned' = [Raise(a, "approve_request(request_id, overrides)", TypeError)
                    EXCEPT !.exc = FALSE]
  /\ UNCHANGED <<qvars, nfn, pc, cur, exc, timeout, avars>>
  /\ UNCHANGED <<mvars, nvars, tvars>>
  /\ NoAskStep

\* deny_request(request_id): _find_request and the test; a failed test
\* returns False.
DenyRequest(a, id) ==
  /\ Takes(a, Approvers)
  /\ LET i == _find_request(id) IN
       IF IsUndecided(i)
         THEN /\ cur' = [cur EXCEPT ![a] = i]
              /\ pc' = [pc EXCEPT ![a] = "dn_set"]
              /\ returned' = NoReturn
         ELSE /\ returned' = Return(a, "deny_request", PyFalse, FALSE)
              /\ pc' = pc
              /\ cur' = cur
  /\ UNCHANGED <<qvars, nfn, exc, timeout, avars>>
  /\ UNCHANGED <<mvars, nvars, tvars>>
  /\ NoAskStep

\* deny_request: `req.approved = False`.
DenySet(a) ==
  /\ pc[a] = "dn_set"
  /\ requests' = [requests EXCEPT ![cur[a]].approved = "False"]
  /\ pc' = [pc EXCEPT ![a] = "dn_notify"]
  /\ returned' = NoReturn
  /\ UNCHANGED <<mode, queue, next_id, auto_approve_count, lock, nfn,
                 cur, exc, timeout, avars>>
  /\ UNCHANGED <<mvars, nvars, tvars>>
  /\ NoAskStep

\* deny_request: `with req.condition: req.condition.notify()`, `return True`.
DenyReturn(a) ==
  /\ pc[a] = "dn_notify"
  /\ requests[cur[a]].condition = NoThread
  /\ returned' = Return(a, "deny_request", PyTrue, FALSE)
  /\ ApproverDone(a)
  /\ UNCHANGED <<qvars, nfn, timeout>>
  /\ UNCHANGED <<mvars, nvars, tvars>>
  /\ NoAskStep

\* approve_batch(n): `with self._lock: self._auto_approve_count = max(0,
\* int(count))`.  p0 is what get_pending_requests shows at the call.
BatchStart(a, n) ==
  /\ Takes(a, Approvers)
  /\ lock = NoThread
  /\ auto_approve_count' = Max0(n)
  /\ count' = [count EXCEPT ![a] = n]
  /\ n0' = [n0 EXCEPT ![a] = n]
  /\ p0' = [p0 EXCEPT ![a] = Cardinality(get_pending_requests)]
  /\ pc' = [pc EXCEPT ![a] = "ab_loop"]
  /\ returned' = NoReturn
  /\ UNCHANGED <<mode, requests, queue, next_id, lock, nfn, cur,
                 exc, timeout>>
  /\ UNCHANGED <<mvars, nvars, tvars>>
  /\ NoAskStep

ApproveBatch(a, n) == BatchStart(a, n)

\* approve_all_pending: approve_batch(len(self.get_pending_requests())).
ApproveAllPending(a) == BatchStart(a, Cardinality(get_pending_requests))

\* approve_batch: the loop test `not self._queue.empty() and count > 0`, and
\* when it holds `req = self._queue.get()` and the test `req.approved is
\* None`: a decided request only costs `count -= 1`.  The function returns
\* when the loop test fails.
BatchLoop(a) ==
  /\ pc[a] = "ab_loop"
  /\ IF queue # <<>> /\ count[a] > 0
       THEN /\ queue' = Tail(queue)
            /\ returned' = NoReturn
            /\ exc' = exc
            /\ UNCHANGED <<n0, p0>>
            /\ IF requests[Head(queue)].approved = "None"
                 THEN /\ cur' = [cur EXCEPT ![a] = Head(queue)]
                      /\ pc' = [pc EXCEPT ![a] = "ab_call"]
                      /\ count' = count
                 ELSE /\ cur' = cur
                      /\ pc' = pc
                      /\ count' = [count EXCEPT ![a] = @ - 1]
       ELSE /\ returned' = Return(a, "approve_batch", None, FALSE)
            /\ queue' = queue
            /\ ApproverDone(a)
  /\ UNCHANGED <<mode, requests, next_id, auto_approve_count, lock, nfn, timeout>>
  /\ UNCHANGED <<mvars, nvars, tvars>>
  /\ NoAskStep

\* approve_batch: `self._execute_request(req)`, the call.
BatchCall(a, o) ==
  /\ pc[a] = "ab_call"
  /\ ExecuteCall(a, o, requests[cur[a]].condition)
  /\ pc' = [pc EXCEPT ![a] = "ab_set"]
  /\ returned' = NoReturn
  /\ UNCHANGED <<mode, queue, next_id, auto_approve_count, lock, nfn, cur,
                 timeout, avars>>
  /\ UNCHANGED <<mvars, nvars, tvars>>
  /\ ask_returned' = NoReturn
  /\ UNCHANGED <<ask, do_calls>>

\* approve_batch: the end of _execute_request (its value is dropped).
BatchSet(a) ==
  /\ pc[a] = "ab_set"
  /\ ExecuteSet(a, requests[cur[a]].condition)
  /\ pc' = [pc EXCEPT ![a] = "ab_notify"]
  /\ returned' = NoReturn
  /\ UNCHANGED <<mode, queue, next_id, auto_approve_count, lock, nfn,
                 cur, exc, timeout, avars>>
  /\ UNCHANGED <<mvars, nvars, tvars>>
  /\ NoAskStep

\* A drain that takes each request it executes off the standing grant: a
\* mutant of BatchNotify.
BatchNotify_ConsumesGrant(a) ==
  /\ pc[a] = "ab_notify"
  /\ requests[cur[a]].condition = 0
  /\ count' = [count EXCEPT ![a] = @ - 1]
  /\ auto_approve_count' = IF auto_approve_count > 0 THEN auto_approve_count - 1 ELSE 0
  /\ cur' = [cur EXCEPT ![a] = 0]
  /\ exc' = [exc EXCEPT ![a] = FALSE]
  /\ pc' = [pc EXCEPT ![a] = "ab_loop"]
  /\ returned' = <<>>
  /\ UNCHANGED <<mode, requests, queue, next_id, lock, nfn, timeout, n0, p0>>
  /\ UNCHANGED <<mvars, nvars, tvars>>
  /\ NoAskStep

\* approve_batch: `with req.condition: req.condition.notify()`, `count -= 1`.
BatchNotify(a) ==
  /\ pc[a] = "ab_notify"
  /\ requests[cur[a]].condition = NoThread
  /\ count' = [count EXCEPT ![a] = @ - 1]
  /\ cur' = [cur EXCEPT ![a] = 0]
  /\ exc' = [exc EXCEPT ![a] = FALSE]
  /\ pc' = [pc EXCEPT ![a] = "ab_loop"]
  /\ returned' = NoReturn
  /\ UNCHANGED <<qvars, nfn, timeout, n0, p0>>
  /\ UNCHANGED <<mvars, nvars, tvars>>
  /\ NoAskStep

----------------------------------------------------------------------------
\* _with_temp_approval_mode(temp_mode, fn) of tasks/lit_search_collect.py and
\* tasks/lit_search_pull.py, as run by worker w.  The workers stand for the
\* threads that execute a task's callable; what fn does to the queue is left
\* to the other threads' steps.

\* The temp_mode of the two call sites.
TempModes == {"auto"}

\* set_mode's `(mode or "manual").strip().lower()` on a mode name.
NormalMode(m) == IF m = "None" \/ m = "" THEN "manual" ELSE m

\* `prev_mode = approvals.approval_queue.get_mode()`.
TempRead(w) ==
  /\ tpc[w] = "out"
  /\ prev_mode' = [prev_mode EXCEPT ![w] = mode]
  /\ tpc' = [tpc EXCEPT ![w] = "read"]
  /\ returned' = NoReturn
  /\ UNCHANGED <<qvars, nfn, pc, cur, exc, timeout, avars>>
  /\ UNCHANGED <<mvars, nvars>>
  /\ NoAskStep

\* `approvals.approval_queue.set_mode(temp_mode)`, after which fn() runs.
TempSet(w, temp_mode) ==
  /\ tpc[w] = "read"
  /\ mode' = NormalMode(temp_mode)
  /\ tpc' = [tpc EXCEPT ![w] = "in"]
  /\ returned' = NoReturn
  /\ UNCHANGED <<requests, queue, next_id, auto_approve_count, lock, nfn, pc, cur,
                 exc, timeout, avars>>
  /\ UNCHANGED <<mvars, nvars, prev_mode>>
  /\ NoAskStep

\* fn() has returned or raised; the finally clause runs
\* `if prev_mode: approvals.approval_queue.set_mode(prev_mode)`, and the
\* wrapper returns fn's value or lets its exception out.
TempRestore(w, o) ==
  /\ tpc[w] = "in"
  /\ mode' = IF prev_mode[w] # "None" /\ prev_mode[w] # ""
             THEN NormalMode(prev_mode[w]) ELSE mode
  /\ tpc' = [tpc EXCEPT ![w] = "out"]
  /\ prev_mode' = [prev_mode EXCEPT ![w] = "None"]
  /\ returned' = IF o = "returns"
                   THEN Return(w, "_with_temp_approval_mode", <<"fn">>, FALSE)
                   ELSE Raise(w, "_with_temp_approval_mode", <<"fn">>)
  /\ UNCHANGED <<requests, queue, next_id, auto_approve_count, lock, nfn, pc, cur,
                 exc, timeout, avars>>
  /\ UNCHANGED <<mvars, nvars>>
  /\ NoAskStep

WorkerStep(w) ==
  \/ TempRead(w)
  \/ \E m \in TempModes : TempSet(w, m)
  \/ \E o \in Outcomes : TempRestore(w, o)

----------------------------------------------------------------------------
Ids == 1..MaxSeqRequests
\* The counts handed to approve_batch; a caller may hand in a negative one.
MinBatch == -1
BatchCounts == MinBatch..MaxBatch

SubmitterStep(t, max) ==
  \/ \E o \in Outcomes : RequestAuto(t, o, max)
  \/ RequestDryrun(t, max)
  \/ DryrunMark(t)
  \/ \E timed \in BOOLEAN : RequestManual(t, timed, max)
  \/ \E expired \in BOOLEAN : WaitCheck(t, expired)
  \/ WaitReturn(t)
  \/ \E o \in Outcomes : GrantCall(t, o)
  \/ GrantReturn(t)

ApproverStep(a) ==
  \/ GetPendingRequests(a)
  \/ \E id \in Ids : ApproveRequest(a, id)
  \/ \E id \in Ids, ov \in Overrides : ApproveRequestOverrides(a, id, ov)
  \/ \E o \in Outcomes : ApproveCall(a, o)
  \/ ApproveReturn(a)
  \/ \E id \in Ids : DenyRequest(a, id)
  \/ DenySet(a)
  \/ DenyReturn(a)
  \/ \E n \in BatchCounts : ApproveBatch(a, n)
  \/ ApproveAllPending(a)
  \/ BatchLoop(a)
  \/ \E o \in Outcomes : BatchCall(a, o)
  \/ BatchSet(a)
  \/ BatchNotify(a)

\* The steps of request_approval in manual mode.
ManualStep(t, max) ==
  \/ \E timed \in BOOLEAN : RequestManual(t, timed, max)
  \/ \E expired \in BOOLEAN : WaitCheck(t, expired)
  \/ WaitReturn(t)
  \/ \E o \in Outcomes : GrantCall(t, o)
  \/ GrantReturn(t)

\* Two submitters and one approver, in any mode.
Next ==
  \/ \E t \in Submitters : SubmitterStep(t, MaxRequests)
  \/ \E a \in {11} : ApproverStep(a)
  \/ \E m \in Modes : SetMode(m)

Spec == Init /\ [][Next]_vars

\* One submitter and two approvers, in manual mode.
RaceNext ==
  \/ \E t \in {1} : ManualStep(t, MaxRaceRequests)
  \/ \E a \in Approvers : ApproverStep(a)

SpecRace == Init /\ [][RaceNext]_vars

\* The threads take the scheduler's turns: a thread that can go on with its
\* wait or its return does so, and so does an approver inside
\* `with req.condition` (callables return or raise, they do not hang).
RaceFairness ==
  /\ WF_vars(\E t \in {1} : \E expired \in BOOLEAN : WaitCheck(t, expired))
  /\ WF_vars(\E t \in {1} : WaitReturn(t))
  /\ WF_vars(\E a \in Approvers : ApproveReturn(a))

FairSpecRace == SpecRace /\ RaceFairness

\* One operation at a time: a thread takes a step only while every other
\* thread is idle or blocked in its wait.
Quiescent(t) == pc[t] \in {"idle", "w_wait"}

SeqNext ==
  \/ \E t \in Submitters :
       /\ \A u \in Threads \ {t} : Quiescent(u)
       /\ SubmitterStep(t, MaxSeqRequests)
  \/ \E a \in {11} :
       /\ \A u \in Threads \ {a} : Quiescent(u)
       /\ ApproverStep(a)
  \/ /\ \A u \in Threads : Quiescent(u)
     /\ \E m \in Modes : SetMode(m)

SpecSeq == Init /\ [][SeqNext]_vars

\* The importers bind the queue and use it, one operation at a time, while
\* the module body may be executed again.
MaxModuleRequests == 1

ModuleNext ==
  \/ \E k \in Importers : Import(k)
  \/ ReloadModule
  \/ \E t \in Submitters :
       /\ refs[t] # 0
       /\ \A u \in Threads \ {t} : Quiescent(u)
       /\ ManualStep(t, MaxModuleRequests)
  \/ \E a \in {11} :
       /\ refs[a] # 0
       /\ \A u \in Threads \ {a} : Quiescent(u)
       /\ ApproverStep(a)

SpecModule == Init /\ [][ModuleNext]_vars

\* One submitter and one approver in manual mode, with callables that may
\* call request_approval themselves; a thread goes on with its own call once
\* the nested one has returned.
MaxNestedRequests == 2

NestedNext ==
  \/ \E t \in {1} : npc[t] = "none" /\ ManualStep(t, MaxNestedRequests)
  \/ \E a \in {11} : npc[a] = "none" /\ ApproverStep(a)
  \/ \E x \in {1, 11} : NestedStep(x, MaxNestedRequests)

SpecNested == Init /\ [][NestedNext]_vars

\* The steps of request_approval in the modes the workers' invocations leave
\* the queue in: manual and auto.
ManualOrAutoStep(t, max) ==
  \/ \E o \in Outcomes : RequestAuto(t, o, max)
  \/ \E timed \in BOOLEAN : RequestManual(t, timed, max)
  \/ \E expired \in BOOLEAN : WaitCheck(t, expired)
  \/ WaitReturn(t)
  \/ \E o \in Outcomes : GrantCall(t, o)
  \/ GrantReturn(t)

\* Two workers inside _with_temp_approval_mode, with a submitter and an
\* approver; nothing else sets the mode.
MaxTempRequests == 1

TempNext ==
  \/ \E w \in Workers : WorkerStep(w)
  \/ \E t \in {1} : ManualOrAutoStep(t, MaxTempRequests)
  \/ \E a \in {11} : ApproverStep(a)

SpecTemp == Init /\ [][TempNext]_vars

\* The submitters call ask(), one operation at a time, in any mode.
MaxAskRequests == 2

AskNext ==
  \/ \E t \in Submitters :
       /\ \A u \in Threads \ {t} : Quiescent(u)
       /\ AskBegin(t)
  \/ \E t \in Submitters :
       /\ ask[t].stage = "gate"
       /\ \A u \in Threads \ {t} : Quiescent(u)
       /\ SubmitterStep(t, MaxAskRequests)
  \/ \E a \in {11} :
       /\ \A u \in Threads \ {a} : Quiescent(u)
       /\ ApproverStep(a)
  \/ /\ \A u \in Threads : Quiescent(u)
     /\ \E m \in Modes : SetMode(m)

SpecAsk == Init /\ [][AskNext]_vars
----------------------------------------------------------------------------
\* The claims.

RequestRefs == 1..Len(requests)

\* C1: the callable of every request is invoked at most once, whatever the
\* interleaving of approve_request, approve_batch, approve_all_pending and
\* deny_request on it.
C1_CallableAtMostOnce ==
  \A i \in RequestRefs : requests[i].calls <= 1

\* C2: a decision that has been made (approved is True or False) never
\* changes afterwards.
C2_DecisionFinal ==
  [][\A i \in RequestRefs :
       requests[i].approved # "None" =>
         requests'[i].approved = requests[i].approved]_vars

C4_DecidedWaiterReturns ==
  \A t \in Submitters :
    (pc[t] = "w_wait" /\ requests[cur[t]].approved # "None") ~> (pc[t] = "idle")

\* C4's case: a submitter still in its wait although its request is decided.
C4_Witness ==
  \E t \in Submitters : pc[t] = "w_wait" /\ requests[cur[t]].approved # "None"

\* C5: in manual mode, with one operation at a time, approve_all_pending
\* (approve_batch called with the number of pending requests) returns with no
\* request pending, and a submitter still blocked then whose request is
\* approved finds its own callable's result on it.
C5_ApproveAllEmptiesPending ==
  [][\A a \in Approvers :
       (/\ mode = "manual"
        /\ pc[a] = "ab_loop" /\ pc'[a] = "idle"
        /\ n0[a] = p0[a])
       => /\ get_pending_requests' = {}
          /\ \A t \in Submitters :
               (pc'[t] = "w_wait" /\ requests'[cur'[t]].approved = "True")
                 => requests'[cur'[t]].result = Ret(requests'[cur'[t]].call_fn)]_vars

\* C6: with one operation at a time, approve_batch(count) called with
\* 0 < count < P while P requests are pending takes the pending requests
\* oldest first, executes exactly count of them and returns with the other
\* P - count still pending, whatever was decided before.
C6_BatchApprovesCountOldest ==
  [][\A a \in Approvers :
       /\ (pc[a] = "ab_loop" /\ pc'[a] = "ab_call")
            => \A j \in get_pending_requests : cur'[a] <= j
       /\ (/\ pc[a] = "ab_loop" /\ pc'[a] = "idle"
           /\ 0 < n0[a] /\ n0[a] < p0[a])
            => Cardinality(get_pending_requests') = p0[a] - n0[a]]_vars

\* C7: approve_batch(count) with count > 0 leaves auto_approve_count at
\* count; a manual submission that finds the counter above 0 takes it down by
\* exactly one and is executed at once by the submitting thread, which never
\* enters the wait and returns its callable's result, or None if the callable
\* raised, without raising; a manual submission that finds the counter at 0
\* leaves it alone and blocks on a pending request; nothing else changes the
\* counter.
C7_GrantedSubmissionsRunAtOnce ==
  [][/\ \A a \in Approvers :
          (pc[a] = "idle" /\ pc'[a] = "ab_loop" /\ n0'[a] > 0)
            => auto_approve_count' = n0'[a]
     /\ \A t \in Submitters :
          /\ (mode = "manual" /\ pc[t] = "idle" /\ pc'[t] # "idle")
               => IF auto_approve_count > 0
                    THEN /\ pc'[t] = "g_call"
                         /\ auto_approve_count' = auto_approve_count - 1
                    ELSE /\ pc'[t] = "w_wait"
                         /\ auto_approve_count' = auto_approve_count
                         /\ cur'[t] \in get_pending_requests'
          /\ (pc[t] = "g_call" /\ pc'[t] # "g_call")
               => /\ pc'[t] = "g_set"
                  /\ requests'[cur[t]].calls = requests[cur[t]].calls + 1
          /\ (pc[t] = "g_set" /\ pc'[t] # "g_set")
               => returned' = Return(t, "request_approval",
                     IF exc[t] THEN None ELSE Ret(requests[cur[t]].call_fn),
                     exc[t])
     /\ auto_approve_count' # auto_approve_count
          => \/ \E a \in Approvers : pc[a] = "idle" /\ pc'[a] = "ab_loop"
             \/ \E t \in Submitters : pc[t] = "idle" /\ pc'[t] = "g_call"]_vars

\* C8: while a submission made in dryrun mode is on its way, its callable has
\* not been invoked and its request is not approved, whatever the approvers
\* do meanwhile, and the submission returns None.
C8_DryrunNeverExecutes ==
  [][\A t \in Submitters :
       /\ pc'[t] = "dry_mark"
            => /\ requests'[cur'[t]].calls = 0
               /\ requests'[cur'[t]].approved # "True"
       /\ (pc[t] = "dry_mark" /\ pc'[t] # "dry_mark")
            => /\ returned' = Return(t, "request_approval", None, FALSE)
               /\ requests'[cur[t]].calls = 0
               /\ requests'[cur[t]].approved = "False"]_vars

\* C9: a submission made in auto mode is over in the step that makes it (it
\* waits for nothing), and it returns the callable's return value when the
\* callable returns and None when it raises; no exception leaves it.
C9_AutoNeverWaitsNorRaises ==
  [][\A t \in Submitters :
       (mode = "auto" /\ Takes(t, Submitters) /\ nfn' = nfn + 1)
         => /\ pc'[t] = "idle"
            /\ \/ returned' = Return(t, "request_approval", Ret(nfn + 1), FALSE)
               \/ returned' = Return(t, "request_approval", None, TRUE)]_vars

\* C9's case: a submission in auto mode whose callable raised has returned
\* None.
C9_Witness ==
  /\ mode = "auto"
  /\ requests = <<>>
  /\ returned # NoReturn
  /\ returned = Return(1, "request_approval", None, TRUE)

\* C10: a timed submitter that ends its wait with its request undecided
\* returns None and leaves the request as it is, still pending; an
\* approve_request that runs the callable to its end afterwards returns the
\* callable's result and leaves it on the request, now approved.
C10_TimeoutLeavesRequestPending ==
  [][/\ \A t \in Submitters :
          (/\ pc[t] = "w_read" /\ pc'[t] # "w_read"
           /\ timeout[t] /\ requests[cur[t]].approved = "None")
            => /\ returned' = Return(t, "request_approval", None, FALSE)
               /\ requests' = requests
               /\ cur[t] \in get_pending_requests'
     /\ \A a \in Approvers :
          /\ (pc[a] = "ar_call" /\ pc'[a] # "ar_call")
               => requests'[cur[a]].calls = requests[cur[a]].calls + 1
          /\ (pc[a] = "ar_set" /\ pc'[a] # "ar_set" /\ ~exc[a])
               => /\ returned' = Return(a, "approve_request",
                                        Ret(requests[cur[a]].call_fn), FALSE)
                  /\ requests'[cur[a]].result = Ret(requests[cur[a]].call_fn)
                  /\ requests'[cur[a]].approved = "True"]_vars

\* C10's case: the submitter has timed out and returned, and an
\* approve_request has just run the callable of its still undecided request.
C10_Witness ==
  /\ \A t \in Submitters : pc[t] = "idle"
  /\ \E a \in Approvers :
       /\ pc[a] = "ar_set" /\ ~exc[a]
       /\ requests[cur[a]].approved = "None"
       /\ requests[cur[a]].calls = 1

\* C11: a deny_request that returns True leaves its request denied, with a
\* callable that has not been executed, whatever approve_request and
\* approve_batch do to the same request meanwhile.
C11_DeniedNeverExecuted ==
  [][\A a \in Approvers :
       (pc[a] = "dn_notify" /\ pc'[a] = "idle")
         => /\ returned' = Return(a, "deny_request", PyTrue, FALSE)
            /\ requests'[cur[a]].calls = 0
            /\ requests'[cur[a]].approved = "False"]_vars

\* C12: a deny_request goes on to deny only a request it found undecided;
\* otherwise (unknown id, request already approved or denied; always so when
\* nothing is pending) it returns False at once and leaves every request, the
\* history, the queue, the id counter and auto_approve_count as they were.
C12_DenyDecidedIsNoOp ==
  [][\A a \in Approvers :
       /\ (pc[a] = "idle" /\ pc'[a] = "dn_set")
            => requests[cur'[a]].approved = "None"
       /\ (pc[a] = "idle" /\ get_pending_requests = {}) => pc'[a] # "dn_set"
       /\ (/\ pc[a] = "idle" /\ returned' # NoReturn
           /\ returned'.by = a /\ returned'.op = "deny_request")
            => /\ returned'.val = PyFalse
               /\ ~returned'.raised
               /\ requests' = requests
               /\ queue' = queue
               /\ next_id' = next_id
               /\ auto_approve_count' = auto_approve_count]_vars

\* C12's case: deny_request has just returned False on an id that is unknown
\* or decided, with a decided request in the history.
C12_Witness ==
  /\ returned # NoReturn
  /\ returned.op = "deny_request" /\ returned.val = PyFalse
  /\ \E i \in RequestRefs : requests[i].approved = "True"
  /\ \E i \in RequestRefs : requests[i].approved = "False"

\* C13: an approve_request goes on to execute only a request it found
\* undecided; otherwise (unknown id, request already decided; always so when
\* nothing is pending) it returns None at once, having executed no callable
\* and left every request, the history, the queue, the id counter and
\* auto_approve_count as they were.
C13_ApproveDecidedIsNoOp ==
  [][\A a \in Approvers :
       /\ (pc[a] = "idle" /\ pc'[a] = "ar_call")
            => requests[cur'[a]].approved = "None"
       /\ (pc[a] = "idle" /\ get_pending_requests = {}) => pc'[a] # "ar_call"
       /\ (/\ pc[a] = "idle" /\ returned' # NoReturn
           /\ returned'.by = a /\ returned'.op = "approve_request")
            => /\ returned'.val = None
               /\ ~returned'.raised
               /\ requests' = requests
               /\ queue' = queue
               /\ next_id' = next_id
               /\ auto_approve_count' = auto_approve_count]_vars

\* C13's case: approve_request has just returned None without a call of its
\* own, with a decided request in the history.
C13_Witness ==
  /\ returned # NoReturn
  /\ returned.op = "approve_request" /\ returned.val = None /\ ~returned.exc
  /\ \E i \in RequestRefs : requests[i].approved # "None"

\* C14: an approve_request whose call of the callable raised returns None and
\* leaves the exception in the request's error field and the request
\* approved, not denied.
C14_FailedApprovalIsApproved ==
  [][\A a \in Approvers :
       (pc[a] = "ar_set" /\ pc'[a] = "idle" /\ exc[a])
         => /\ returned' = Return(a, "approve_request", None, TRUE)
            /\ requests'[cur[a]].error = Exc(requests[cur[a]].call_fn)
            /\ requests'[cur[a]].condition = NoThread
            /\ requests'[cur[a]].approved = "True"]_vars

\* C15: approve_request(id, overrides) on an undecided request does not
\* fail: it goes on to execute that request's callable.
C15_OverridesReachCallable ==
  [][\A a \in Approvers, id \in Ids, ov \in Overrides :
       (ApproveRequestOverrides(a, id, ov) /\ IsUndecided(_find_request(id)))
         => /\ returned' = NoReturn
            /\ pc'[a] = "ar_call"
            /\ cur'[a] = _find_request(id)]_vars

C17_ResultErrorExclusive ==
  \A i \in RequestRefs :
    /\ ~(requests[i].result # None /\ requests[i].error # None)
    /\ requests[i].approved = "None"
         => requests[i].result = None /\ requests[i].error = None

\* C18: a thread that executes a callable, in approve_request, in
\* approve_batch or on the grant path of request_approval, does not hold
\* _lock while the callable runs.
C18_NoCallUnderLock ==
  [][\A t \in Threads :
       /\ (pc[t] \in {"g_call", "ar_call", "ab_call"} /\ pc'[t] # pc[t])
            => lock # t
       /\ pc'[t] \in {"g_call", "ar_call", "ab_call"} => lock' # t]_vars

\* C19: whenever a call of a submitted callable raises, in auto mode, under an
\* approval or on the grant path, the exception is in the error field of a
\* request of the history, and the submission that ran the callable itself
\* returns None.
C19_RaisedErrorsAreRecorded ==
  [][/\ (mode = "auto" /\ nfn' = nfn + 1 /\ returned'.exc)
          => /\ returned'.val = None
             /\ \E i \in 1..Len(requests') : requests'[i].error = Exc(nfn + 1)
     /\ \A t \in Threads :
          /\ (/\ pc[t] \in {"g_call", "ar_call", "ab_call"}
              /\ pc'[t] # pc[t] /\ exc'[t])
               => requests'[cur[t]].error = Exc(requests[cur[t]].call_fn)
          /\ (pc[t] = "g_set" /\ pc'[t] = "idle" /\ exc[t])
               => /\ returned' = Return(t, "request_approval", None, TRUE)
                  /\ requests'[cur[t]].error = Exc(requests[cur[t]].call_fn)
     /\ \A i \in RequestRefs : requests[i].error # None
          => requests'[i].error = requests[i].error]_vars

\* C20: exactly one ApprovalQueue object backs the module-level API: however
\* often the module is imported and its body executed again, one queue has
\* been constructed, the module's approval_queue is that queue, and every
\* importer that has bound approval_queue holds it; so the pending list an
\* importer is given is the list of the undecided requests of that one queue,
\* whichever importers submitted them.
C20_OneQueueInstance ==
  [][/\ instances' = 1
     /\ module'.approval_queue = 1
     /\ module'.GLOBAL_APPROVAL_QUEUE = 1
     /\ \A k \in Importers : refs'[k] \in {0, module'.approval_queue}
     /\ (returned' # NoReturn /\ returned'.op = "get_pending_requests")
          => /\ refs[returned'.by] = module.approval_queue
             /\ returned'.val = PendingList
             /\ \A t \in Submitters :
                  (pc[t] = "w_wait" /\ requests[cur[t]].approved = "None")
                    => \E i \in 1..Len(returned'.val) :
                         returned'.val[i].id = requests[cur[t]].id]_vars

\* After a second execution of the module body, importer 11 is given a
\* pending list that holds the request importer 1 submitted and waits for.
C20_Witness ==
  /\ executions > 1
  /\ refs[1] # 0
  /\ refs[11] # 0
  /\ pc[1] = "w_wait"
  /\ returned # NoReturn
  /\ returned.op = "get_pending_requests"
  /\ returned.by = 11
  /\ \E i \in 1..Len(returned.val) : returned.val[i].id = requests[cur[1]].id

\* C22: in auto mode request_approval creates no request: the step that
\* takes a submission in auto mode leaves next_id, the request history, the
\* FIFO and auto_approve_count as they were (so every existing request keeps
\* its decision, result and error), and next_id changes only in a step that
\* takes a submission in manual or dryrun mode.
C22_AutoCreatesNoRequest ==
  [][/\ (nfn' = nfn + 1 /\ mode = "auto")
          => /\ next_id' = next_id
             /\ requests' = requests
             /\ queue' = queue
             /\ auto_approve_count' = auto_approve_count
     /\ next_id' # next_id
          => /\ nfn' = nfn + 1
             /\ mode \in {"manual", "dryrun"}
             /\ next_id' = next_id + 1]_vars

\* An auto submission has returned its callable's value while an earlier
\* request is in the history, and no request was made for it.
C22_Witness ==
  /\ returned # NoReturn
  /\ returned.op = "request_approval"
  /\ returned.val = Ret(nfn)
  /\ Len(requests) = 1
  /\ \A i \in RequestRefs : requests[i].call_fn # nfn
  /\ next_id = 2

\* C24: the mode is read once, when request_approval starts.  A set_mode
\* while submissions are blocked changes no request and moves no thread; a
\* blocked submission leaves its wait only once its request is decided or its
\* timeout has run out, whatever the mode has become; and a submission that
\* starts takes the branch of the mode in effect at that moment.
C24_ModeReadOnceAtStart ==
  [][/\ mode' # mode
          => /\ requests' = requests
             /\ queue' = queue
             /\ pc' = pc
             /\ cur' = cur
     /\ \A t \in Submitters :
          /\ (pc[t] = "w_wait" /\ pc'[t] # "w_wait")
               => \/ requests[cur[t]].approved # "None"
                  \/ timeout[t]
          /\ (pc[t] = "idle" /\ nfn' = nfn + 1 /\ (pc'[t] # "idle" \/ returned' # NoReturn)
              /\ (returned' # NoReturn => returned'.by = t))
               => \/ mode = "auto" /\ pc'[t] = "idle" /\ requests' = requests
                  \/ mode = "dryrun" /\ pc'[t] = "dry_mark"
                  \/ mode = "manual" /\ pc'[t] \in {"w_wait", "g_call"}]_vars

\* Submitter 1 is still blocked on its undecided request after the mode was
\* set to dryrun, and submitter 2, which started afterwards, is in the dryrun
\* branch.
C24_Witness ==
  /\ pc[1] = "w_wait"
  /\ ~timeout[1]
  /\ requests[cur[1]].approved = "None"
  /\ mode = "dryrun"
  /\ pc[2] = "dry_mark"
  /\ requests[cur[2]].id > requests[cur[1]].id

\* C25: auto_approve_count is a natural number in every reachable state,
\* with approve_batch and manual submissions interleaved; and an
\* approve_batch called with a count of zero or less sets it to 0 and never
\* gets to execute a request.
C25_GrantNeverNegative ==
  /\ auto_approve_count \in Nat
  /\ \A a \in Approvers :
       (pc[a] \in {"ab_loop", "ab_call", "ab_set", "ab_notify"} /\ n0[a] <= 0)
         => /\ pc[a] = "ab_loop"
            /\ cur[a] = 0
            /\ count[a] = n0[a]
            /\ (lock = NoThread /\ \A t \in Submitters : pc[t] \in {"idle", "w_wait"})
                 => auto_approve_count = 0

\* approve_batch(-1) is running while a request is pending and a standing
\* grant of an earlier approve_batch had been consumed by a submission.
C25_Witness ==
  /\ pc[11] = "ab_loop"
  /\ n0[11] < 0
  /\ auto_approve_count = 0
  /\ get_pending_requests # {}
  /\ \E i \in RequestRefs : requests[i].approved # "None"

\* C26: with one operation at a time, approve_batch(N) with N >= 0 returns
\* with auto_approve_count = N however many requests were pending and
\* executed by it; so approve_all_pending with k pending returns with a
\* grant of k, and while a grant is left a manual submission is executed by
\* its own thread at once, with no decision of an approver, and takes one
\* off the grant.
C26_DrainKeepsGrant ==
  [][/\ \A a \in Approvers :
          (returned' # NoReturn /\ returned'.op = "approve_batch"
           /\ returned'.by = a /\ n0[a] >= 0)
            => auto_approve_count' = n0[a]
     /\ \A t \in Submitters :
          (pc[t] = "idle" /\ pc'[t] \in {"w_wait", "g_call"} /\ auto_approve_count > 0)
            => /\ pc'[t] = "g_call"
               /\ auto_approve_count' = auto_approve_count - 1
     /\ \A t \in Submitters :
          (pc[t] = "g_set" /\ pc'[t] = "idle")
            => /\ returned'.by = t
               /\ requests'[cur[t]].calls >= 1
               /\ requests'[cur[t]].approved # "None"]_vars

\* A batch approval of two has executed the two pending requests and
\* returned, its grant of two stood, and the next manual submission is being
\* executed on that grant.
C26_Witness ==
  /\ Len(requests) = 3
  /\ requests[1].approved = "True"
  /\ requests[2].approved = "True"
  /\ requests[1].calls = 1
  /\ requests[2].calls = 1
  /\ \E t \in Submitters : pc[t] = "g_call" /\ cur[t] = 3
  /\ auto_approve_count = 1

\* C23: a thread blocked in the wait of request_approval, be it in a call of
\* its own or in one made from inside a callable it executes, does not hold
\* self._lock.
C23_BlockedHoldsNoLock ==
  \A t \in Threads :
    (pc[t] = "w_wait" \/ npc[t] \in {"w_wait", "w_wait_timed"}) => lock # t

\* C29: _with_temp_approval_mode restores the mode that was in effect before
\* the call, whether fn returns or raises: once every invocation, overlapping
\* ones on different threads included, has completed, the mode is again the
\* one in effect before the first of them began ("manual", the mode of Init,
\* as nothing but the invocations sets the mode).
C29_TempModeRestored ==
  (\A w \in Workers : tpc[w] = "out") => mode = "manual"

\* C30: the mode is one value of the whole process: while a worker is inside
\* _with_temp_approval_mode("auto", fn), between its set_mode and its
\* restore, a request_approval started by any other thread finds mode auto,
\* calls its callable at once and returns, with no decision of an approver
\* and no request added to the history.
C30_AutoLeaksToOtherThreads ==
  [][\A w \in Workers :
       tpc[w] = "in"
         => /\ mode = "auto"
            /\ \A t \in Submitters :
                 (pc[t] = "idle" /\ nfn' = nfn + 1)
                   => /\ returned' # NoReturn
                      /\ returned'.op = "request_approval"
                      /\ returned'.val \in {Ret(nfn + 1), None}
                      /\ returned'.val = None => returned'.exc
                      /\ pc' = pc
                      /\ requests' = requests
                      /\ queue' = queue
                      /\ next_id' = next_id]_vars

\* C21: ask() reads the API key and calls the provider only inside the
\* deferred closure: when ask() ends on a request whose callable was never
\* called (denied, timed out, or submitted in dryrun mode), it has read no
\* credential and no provider call was made for it.
C21_NoSecretBeforeApproval ==
  [][\A t \in Submitters :
       (/\ ask_returned' # NoReturn
        /\ ask_returned'.by = t
        /\ cur[t] # 0
        /\ requests'[cur[t]].calls = 0)
         => /\ ~ask[t].api_key
            /\ provider' = NoCall]_vars

\* C27: when a provider call of _do_call at attempt k < MAX_ATTEMPTS fails
\* with an error a known fix matches, the callable does not end there with an
\* exception: it submits a new request_approval for attempt k + 1; and no
\* run of the callable makes more than MAX_ATTEMPTS provider calls.
C27_FixableFailureIsResubmitted ==
  [][(provider' # NoCall)
       => /\ provider'.attempt <= MAX_ATTEMPTS
          /\ (provider'.outcome = "fixable" /\ provider'.attempt < MAX_ATTEMPTS)
               => /\ Len(requests') = Len(requests) + 1
                  /\ requests'[Len(requests')].approved = "None"
                  /\ \A i \in RequestRefs :
                       requests[i].call_fn = provider'.fn
                         => requests'[i].error = None]_vars

\* C28: ask() returns a value only when its callable was called and returned
\* it, and that value is the CognitionResult the callable made; whenever
\* request_approval hands back None (request denied, wait timed out, dryrun
\* mode, or the callable raised), ask() raises RuntimeError, the same one in
\* the four cases.
C28_AskRaisesOnFalsy ==
  [][(ask_returned' # NoReturn)
       => /\ returned' # NoReturn
          /\ returned'.op = "request_approval"
          /\ returned'.by = ask_returned'.by
          /\ ask[ask_returned'.by].stage = "gate"
          /\ returned'.val = None
               => /\ ask_returned'.raised
                  /\ ask_returned'.val = RuntimeError
          /\ returned'.val # None
               => /\ ~ask_returned'.raised
                  /\ ask_returned'.val = returned'.val
                  /\ \E f \in do_calls' :
                       /\ ask_returned'.val = Ret(f)
                       /\ \/ /\ provider' # NoCall
                             /\ provider'.fn = f
                             /\ provider'.outcome = "ok"
                          \/ \E i \in RequestRefs :
                               /\ requests[i].call_fn = f
                               /\ requests[i].calls >= 1
                               /\ requests[i].result = Ret(f)]_vars

\* ask() has raised RuntimeError on a request that was denied, after an
\* earlier ask() raised it on a request whose callable had raised.
C28_Witness ==
  /\ ask_returned # NoReturn
  /\ ask_returned.raised
  /\ ask_returned.val = RuntimeError
  /\ Len(requests) = 2
  /\ requests[1].error # None
  /\ requests[1].approved = "False"
  /\ requests[2].approved = "False"
  /\ requests[2].calls = 0
  /\ requests[2].error = None

====
